---------------------------- MODULE Spec2Model ----------------------------
(***************************************************************************)
(* A model of src/solver.js: the placement check isValidPlacement, the     *)
(* recursive backtracking search solveGrid with its process-wide result    *)
(* slot gridPrimitive, the snapshot decoder gridPrimitiveToArray, the      *)
(* full-grid check validateFullGrid and the entry point getGridSolution.   *)
(*                                                                         *)
(* The recursion of solveGrid is modelled by an explicit stack of frames,  *)
(* one step per loop iteration, so that the grid can be observed after     *)
(* every placement and every undo.                                         *)
(***************************************************************************)
EXTENDS Integers, Sequences, FiniteSets

\* Program constants: the side of the grid and the side of a subgrid.
N == 9
SubgridSize == 3

\* Bounds of the model.
MaxCalls == 2      \* getGridSolution calls made in one process
MaxBlanks == 4     \* cells blanked in a grid handed to getGridSolution
MaxSteps == 4300   \* solver steps taken within one call
MaxEdits == 2      \* cells overwritten in a grid handed to the pure checks

VARIABLES
    grid,           \* the array the caller passed to getGridSolution
    stack,          \* the active solveGrid frames, outermost first
    gridPrimitive,  \* the process-wide result slot (line 47)
    result,         \* what the last getGridSolution call returned
    pc,             \* "idle" | "solving" | "done"
    ncalls,         \* getGridSolution calls made so far
    steps,          \* solver steps taken in the current call
    input,          \* history: the grid as it was when the current call began
    firstFound,     \* history: the first snapshot the current call recorded
    out             \* the last application of a pure check and its value

vars == <<grid, stack, gridPrimitive, result, pc, ncalls, steps, input,
          firstFound, out>>

Idx == 0 .. (N - 1)
Digits == 1 .. 9
Cells == Idx \X Idx

---------------------------------------------------------------------------
(* Grids *)

SolvedRows ==
    << <<1, 2, 3, 4, 5, 6, 7, 8, 9>>,
       <<4, 5, 6, 7, 8, 9, 1, 2, 3>>,
       <<7, 8, 9, 1, 2, 3, 4, 5, 6>>,
       <<2, 1, 4, 3, 6, 5, 8, 9, 7>>,
       <<3, 6, 5, 8, 9, 7, 2, 1, 4>>,
       <<8, 9, 7, 2, 1, 4, 3, 6, 5>>,
       <<5, 3, 1, 6, 4, 2, 9, 7, 8>>,
       <<6, 4, 2, 9, 7, 8, 5, 3, 1>>,
       <<9, 7, 8, 5, 3, 1, 6, 4, 2>> >>

\* A valid solved grid (the one the search reaches first from the all-zero grid).
Solved == [r \in Idx |-> [c \in Idx |-> SolvedRows[r + 1][c + 1]]]

\* A Latin square that is no Sudoku: rows and columns are fine, subgrids are not.
Latin == [r \in Idx |-> [c \in Idx |-> ((r + c) % N) + 1]]

AllZero == [r \in Idx |-> [c \in Idx |-> 0]]

SetCell(g, cell, v) == [g EXCEPT ![cell[1]][cell[2]] = v]

RECURSIVE SetCells(_, _, _)
SetCells(g, cells, v) ==
    IF cells = {} THEN g
    ELSE LET cell == CHOOSE x \in cells : TRUE
         IN  SetCells(SetCell(g, cell, v), cells \ {cell}, v)

---------------------------------------------------------------------------
(* isValidPlacement, lines 8-43 *)

\* lines 10-14: the for-of scan of grid[row]
NumberInRow(g, number, row) ==
    \E i \in Idx : number = g[row][i]

\* lines 17-22: the scan of the column
NumberInColumn(g, number, column) ==
    \E i \in Idx : number = g[i][column]

\* NumberInSubgrid with the origin of the subgrid left unscaled: subgridRow for
\* subgridRow * 3, subgridColumn for subgridColumn * 3.
NumberInSubgridFlooredOnly(g, number, row, column) ==
    LET subgridRow == row \div SubgridSize
        subgridColumn == column \div SubgridSize
    IN  \E tempRow \in subgridRow .. (subgridRow + 2) :
          \E tempColumn \in subgridColumn .. (subgridColumn + 2) :
            number = g[tempRow][tempColumn]

\* lines 25-39: the scan of the 3x3 subgrid
NumberInSubgrid(g, number, row, column) ==
    LET subgridRow == row \div SubgridSize
        subgridColumn == column \div SubgridSize
    IN  \E tempRow \in (subgridRow * 3) .. (subgridRow * 3 + 2) :
          \E tempColumn \in (subgridColumn * 3) .. (subgridColumn * 3 + 2) :
            number = g[tempRow][tempColumn]

\* isValidPlacement without its column and subgrid scans.
isValidPlacementRowOnly(g, number, row, column) ==
    ~NumberInRow(g, number, row)

\* lines 8-43: false at the first scan that finds the number, true otherwise
isValidPlacement(g, number, row, column) ==
    IF NumberInRow(g, number, row) THEN FALSE
    ELSE IF NumberInColumn(g, number, column) THEN FALSE
    ELSE IF NumberInSubgrid(g, number, row, column) THEN FALSE
    ELSE TRUE

---------------------------------------------------------------------------
(* The result slot and its decoding, lines 47, 85, 94-110 *)

\* gridPrimitive before any assignment (undefined); `!gridPrimitive` is its test.
Undefined == << >>

DecimalOf == <<"0", "1", "2", "3", "4", "5", "6", "7", "8", "9">>

\* Number.prototype.toString for a cell value
NumberToString(n) == DecimalOf[n + 1]

\* parseInt of a token of the snapshot
parseInt(s) == CHOOSE n \in 0 .. 9 : DecimalOf[n + 1] = s

\* TemplateString with the cells taken column by column.
TemplateStringColumnMajor(g) ==
    [i \in 1 .. (N * N) |-> NumberToString(g[(i - 1) % N][(i - 1) \div N])]

\* line 85, `${grid}`: Array.prototype.toString joins the rows, and within each
\* row the cells, with ",". The string is modelled by its comma-separated tokens.
TemplateString(g) ==
    [i \in 1 .. (N * N) |-> NumberToString(g[(i - 1) \div N][(i - 1) % N])]

\* lines 94-110: split(','), then nine times shift nine tokens into a row
gridPrimitiveToArray(string) ==
    LET rawGridNumbers == string
    IN  [i \in Idx |-> [j \in Idx |-> parseInt(rawGridNumbers[N * i + j + 1])]]

---------------------------------------------------------------------------
(* validateFullGrid, lines 118-170 *)

\* lines 121-126: [...new Set(grid[i])].length != 9
RowsDistinct(g) ==
    \A i \in Idx : Cardinality({g[i][c] : c \in Idx}) = 9

\* lines 130-139
ColumnsDistinct(g) ==
    \A column \in Idx : Cardinality({g[row][column] : row \in Idx}) = 9

\* lines 142-167: no other cell of a cell's subgrid holds the cell's value
SubgridsDistinct(g) ==
    \A column \in Idx : \A row \in Idx :
      LET subgridRow == row \div SubgridSize
          subgridColumn == column \div SubgridSize
      IN  \A tempRow \in (subgridRow * 3) .. (subgridRow * 3 + 2) :
            \A tempColumn \in (subgridColumn * 3) .. (subgridColumn * 3 + 2) :
              ~(g[row][column] = g[tempRow][tempColumn]
                /\ (row # tempRow \/ column # tempColumn))

\* validateFullGrid without its third loop, the subgrid check.
validateFullGridNoSubgrids(g) ==
    RowsDistinct(g) /\ ColumnsDistinct(g)

\* lines 118-170: false at the first check that fails, true otherwise
validateFullGrid(g) ==
    IF ~RowsDistinct(g) THEN FALSE
    ELSE IF ~ColumnsDistinct(g) THEN FALSE
    ELSE IF ~SubgridsDistinct(g) THEN FALSE
    ELSE TRUE

---------------------------------------------------------------------------
(* solveGrid, lines 57-86, as a machine of frames *)

EmptyCells(g) == {cell \in Cells : g[cell[1]][cell[2]] = 0}

RowMajor(cell) == N * cell[1] + cell[2]

\* lines 60-62: the first cell holding 0, scanning rows then columns
FirstEmptyCell(g) ==
    CHOOSE cell \in EmptyCells(g) :
      \A other \in EmptyCells(g) : RowMajor(cell) <= RowMajor(other)

\* A frame that has just been entered and has not yet scanned the grid.
NewFrame == [pc |-> "scan", row |-> 0, column |-> 0, numberToTry |-> 0]

Top == stack[Len(stack)]
Pop == SubSeq(stack, 1, Len(stack) - 1)
ReplaceTop(f) == [stack EXCEPT ![Len(stack)] = f]

\* A frame is active and the step budget of the model is not used up.
Running == pc = "solving" /\ stack # << >> /\ steps < MaxSteps

\* lines 60-62 finding no 0, then line 85: the snapshot is stored and the frame ends
RecordSolution ==
    /\ Running
    /\ Top.pc = "scan"
    /\ EmptyCells(grid) = {}
    /\ gridPrimitive' = TemplateString(grid)
    /\ firstFound' = IF firstFound = Undefined THEN TemplateString(grid)
                     ELSE firstFound
    /\ stack' = Pop
    /\ steps' = steps + 1
    /\ UNCHANGED <<grid, result, pc, ncalls, input, out>>

\* lines 60-65: the scan stops at the first 0 and the digit loop starts at 1
FindEmptyCell ==
    /\ Running
    /\ Top.pc = "scan"
    /\ EmptyCells(grid) # {}
    /\ LET cell == FirstEmptyCell(grid)
       IN  stack' = ReplaceTop([pc |-> "try", row |-> cell[1],
                                column |-> cell[2], numberToTry |-> 1])
    /\ steps' = steps + 1
    /\ UNCHANGED <<grid, gridPrimitive, result, pc, ncalls, input, firstFound, out>>

\* lines 68-70: the digit is accepted, written, and solveGrid is called again
Place ==
    /\ Running
    /\ Top.pc = "try"
    /\ Top.numberToTry < 10
    /\ isValidPlacement(grid, Top.numberToTry, Top.row, Top.column)
    /\ grid' = SetCell(grid, <<Top.row, Top.column>>, Top.numberToTry)
    /\ stack' = Append(ReplaceTop([Top EXCEPT !.pc = "ret"]), NewFrame)
    /\ steps' = steps + 1
    /\ UNCHANGED <<gridPrimitive, result, pc, ncalls, input, firstFound, out>>

\* lines 65, 68: the digit is rejected and the loop goes on to the next one
Skip ==
    /\ Running
    /\ Top.pc = "try"
    /\ Top.numberToTry < 10
    /\ ~isValidPlacement(grid, Top.numberToTry, Top.row, Top.column)
    /\ stack' = ReplaceTop([Top EXCEPT !.numberToTry = @ + 1])
    /\ steps' = steps + 1
    /\ UNCHANGED <<grid, gridPrimitive, result, pc, ncalls, input, firstFound, out>>

\* Undo without the loop's increment: the same digit is tried again.
UndoSameDigit ==
    /\ Running
    /\ Top.pc = "ret"
    /\ grid' = SetCell(grid, <<Top.row, Top.column>>, 0)
    /\ stack' = ReplaceTop([Top EXCEPT !.pc = "try"])
    /\ steps' = steps + 1
    /\ UNCHANGED <<gridPrimitive, result, pc, ncalls, input, firstFound, out>>

\* line 71, then the loop's increment: the recursive call has returned (with
\* no value), the cell is reset to 0 and the next digit is tried
Undo ==
    /\ Running
    /\ Top.pc = "ret"
    /\ grid' = SetCell(grid, <<Top.row, Top.column>>, 0)
    /\ stack' = ReplaceTop([Top EXCEPT !.pc = "try", !.numberToTry = @ + 1])
    /\ steps' = steps + 1
    /\ UNCHANGED <<gridPrimitive, result, pc, ncalls, input, firstFound, out>>

\* line 77: the digit loop is over and the frame returns
Return ==
    /\ Running
    /\ Top.pc = "try"
    /\ Top.numberToTry = 10
    /\ stack' = Pop
    /\ steps' = steps + 1
    /\ UNCHANGED <<grid, gridPrimitive, result, pc, ncalls, input, firstFound, out>>

---------------------------------------------------------------------------
(* getGridSolution, lines 176-189 *)

Failure == [kind |-> "false"]
Returned(solution) == [kind |-> "grid", solution |-> solution]

\* line 177: the call begins and enters solveGrid(grid)
Call(g) ==
    /\ pc \in {"idle", "done"}
    /\ ncalls < MaxCalls
    /\ grid' = g
    /\ input' = g
    /\ stack' = <<NewFrame>>
    /\ pc' = "solving"
    /\ ncalls' = ncalls + 1
    /\ steps' = 0
    /\ firstFound' = Undefined
    /\ UNCHANGED <<gridPrimitive, result, out>>

\* getGridSolution without the validateFullGrid check of lines 183-188.
getGridSolutionUnvalidated ==
    /\ pc = "solving"
    /\ stack = << >>
    /\ result' = IF gridPrimitive = Undefined THEN Failure
                 ELSE Returned(gridPrimitiveToArray(gridPrimitive))
    /\ pc' = "done"
    /\ UNCHANGED <<grid, stack, gridPrimitive, ncalls, steps, input, firstFound, out>>

\* lines 178-188: solveGrid has returned; the slot is read, decoded and validated
getGridSolution ==
    /\ pc = "solving"
    /\ stack = << >>
    /\ result' = IF gridPrimitive = Undefined THEN Failure
                 ELSE LET solution == gridPrimitiveToArray(gridPrimitive)
                      IN  IF validateFullGrid(solution) THEN Returned(solution)
                          ELSE Failure
    /\ pc' = "done"
    /\ UNCHANGED <<grid, stack, gridPrimitive, ncalls, steps, input, firstFound, out>>

SolverStep ==
    \/ RecordSolution
    \/ FindEmptyCell
    \/ Place
    \/ Skip
    \/ Undo
    \/ Return

---------------------------------------------------------------------------
(* The callers: which grids are handed to getGridSolution *)

\* Cells of Solved that a caller may blank: the four corners of a rectangle
\* holding 1 2 / 2 1 (blanking all four leaves two completions) and one more.
BlankCells == {<<0, 0>>, <<0, 1>>, <<3, 0>>, <<3, 1>>, <<6, 2>>}

\* Clues a caller may overwrite, as <<row, column, digit>>. Each repeats a digit
\* of its row unless the other holder of the digit is blanked.
Overrides == {<<0, 2, 1>>, <<8, 7, 2>>}

OverrideChoices == {{}} \cup {{o} : o \in Overrides}

RECURSIVE ApplyOverrides(_, _)
ApplyOverrides(g, os) ==
    IF os = {} THEN g
    ELSE LET o == CHOOSE x \in os : TRUE
         IN  ApplyOverrides(SetCell(g, <<o[1], o[2]>>, o[3]), os \ {o})

Inputs ==
    {ApplyOverrides(SetCells(Solved, b, 0), o) :
        b \in {x \in SUBSET BlankCells : Cardinality(x) <= MaxBlanks},
        o \in OverrideChoices}

\* The grids of the deep search: no clue at all, and a small puzzle.
DeepInputs == {AllZero, SetCells(Solved, BlankCells, 0)}

NoOut == [fn |-> "none", number |-> 0, row |-> 0, column |-> 0, value |-> FALSE]

Init ==
    /\ grid = AllZero
    /\ input = AllZero
    /\ stack = << >>
    /\ gridPrimitive = Undefined
    /\ result = [kind |-> "none"]
    /\ pc = "idle"
    /\ ncalls = 0
    /\ steps = 0
    /\ firstFound = Undefined
    /\ out = NoOut

Next ==
    \/ \E g \in Inputs : Call(g)
    \/ SolverStep
    \/ getGridSolution

Spec == Init /\ [][Next]_vars

NextDeep ==
    \/ \E g \in DeepInputs : Call(g)
    \/ SolverStep
    \/ getGridSolution

\* The program is single-threaded and runs to completion: a step that can be
\* taken is taken.
SpecDeep == Init /\ [][NextDeep]_vars /\ WF_vars(NextDeep)

---------------------------------------------------------------------------
(* The pure checks applied to grids of any content *)

EditCells == {<<0, 0>>, <<0, 4>>, <<4, 0>>, <<1, 1>>}

RECURSIVE Edited(_, _)
Edited(gs, k) ==
    IF k = 0 THEN gs
    ELSE LET prev == Edited(gs, k - 1)
         IN  prev \cup {SetCell(g, cell, v) :
                          g \in prev, cell \in EditCells, v \in 0 .. 9}

PureGrids == Edited({Solved, Latin}, MaxEdits)

InitPure ==
    /\ grid \in PureGrids
    /\ input = grid
    /\ stack = << >>
    /\ gridPrimitive = Undefined
    /\ result = [kind |-> "none"]
    /\ pc = "idle"
    /\ ncalls = 0
    /\ steps = 0
    /\ firstFound = Undefined
    /\ out = NoOut

CheckPlacement(number, row, column) ==
    /\ out' = [fn |-> "isValidPlacement", number |-> number, row |-> row,
               column |-> column,
               value |-> isValidPlacement(grid, number, row, column)]
    /\ UNCHANGED <<grid, stack, gridPrimitive, result, pc, ncalls, steps, input,
                   firstFound>>

CheckFullGrid ==
    /\ out' = [fn |-> "validateFullGrid", number |-> 0, row |-> 0, column |-> 0,
               value |-> validateFullGrid(grid)]
    /\ UNCHANGED <<grid, stack, gridPrimitive, result, pc, ncalls, steps, input,
                   firstFound>>

NextPure ==
    \/ \E number \in Digits : \E cell \in EditCells :
         CheckPlacement(number, cell[1], cell[2])
    \/ CheckFullGrid

SpecPure == InitPure /\ [][NextPure]_vars

---------------------------------------------------------------------------
(* What the properties are stated with *)

RowUnit(r) == {<<r, c>> : c \in Idx}
ColumnUnit(c) == {<<r, c>> : r \in Idx}
BoxUnit(b) ==
    {<<SubgridSize * (b \div SubgridSize) + i, SubgridSize * (b % SubgridSize) + j>> :
        i \in 0 .. (SubgridSize - 1), j \in 0 .. (SubgridSize - 1)}
Units == {RowUnit(r) : r \in Idx} \cup {ColumnUnit(c) : c \in Idx}
            \cup {BoxUnit(b) : b \in Idx}

At(g, cell) == g[cell[1]][cell[2]]

\* The units a cell lies in: its row, its column and its 3x3 box.
UnitsOf(cell) == {u \in Units : cell \in u}

\* Every unit holds each digit 1..9 exactly once.
IsSudoku(g) ==
    \A u \in Units : \A d \in Digits :
      Cardinality({cell \in u : At(g, cell) = d}) = 1

\* No digit 1..9 occurs twice among the non-zero cells of a unit.
NoDuplicates(g) ==
    \A u \in Units : \A d \in Digits :
      Cardinality({cell \in u : At(g, cell) = d}) <= 1

IsFull(g) == \A cell \in Cells : At(g, cell) \in Digits

Extends(s, g) == \A cell \in Cells : At(g, cell) # 0 => At(s, cell) = At(g, cell)

\* The digits that no cell of the units of `cell` holds.
Free(g, cell) ==
    {d \in Digits : \A u \in UnitsOf(cell) : \A other \in u : At(g, other) # d}

\* Every Sudoku that extends g. A blank can only take a digit free in its units,
\* so filling blanks from their free digits loses no completion; what is kept
\* is what IsSudoku accepts.
RECURSIVE Fill(_)
Fill(g) ==
    IF EmptyCells(g) = {} THEN (IF IsSudoku(g) THEN {g} ELSE {})
    ELSE LET cell == CHOOSE x \in EmptyCells(g) : TRUE
         IN  UNION {Fill(SetCell(g, cell, d)) : d \in Free(g, cell)}

Completions(g) == IF NoDuplicates(g) THEN Fill(g) ELSE {}

ReturnedGrid == pc = "done" /\ result.kind = "grid"

---------------------------------------------------------------------------
(* Properties *)

\* C1: whenever a getGridSolution call returns a grid, in any sequence of calls
\* and for any input, every row, column and box of the returned grid holds each
\* digit 1..9 exactly once.
C1_ReturnedGridIsSudoku ==
    ReturnedGrid => IsSudoku(result.solution)

\* A second call, handed a grid with blanks, returns a grid.
C1_Witness ==
    ReturnedGrid /\ ncalls = 2 /\ EmptyCells(input) # {}

\* C2: whenever a call returns a grid, every cell that was non-zero in that
\* call's input holds the same value in the returned grid.
C2_CluesPreserved ==
    ReturnedGrid => Extends(result.solution, input)

\* C3: a call whose input grid admits no valid completion returns the failure
\* value, whatever calls preceded it.
C3_NoCompletionFails ==
    (pc = "done" /\ Completions(input) = {}) => result = Failure

C5_FirstSuccessWins ==
    (ReturnedGrid /\ firstFound # Undefined) =>
        result.solution = gridPrimitiveToArray(firstFound)

\* C6: when solveGrid returns to its outermost caller, the grid is fully
\* solved if the search found a solution, and equal to its value at the time of
\* the call if the search found none.
C6_SolvedOrRestored ==
    (pc = "solving" /\ stack = << >>) =>
        IF firstFound # Undefined
        THEN IsFull(grid) /\ Extends(grid, input)
        ELSE grid = input

\* C7: if the clues of the input satisfy row/column/box uniqueness, then in
\* every state of the search no digit occurs twice among the non-zero cells of a
\* row, column or box, every clue cell holds its clue, and every cell before
\* the cell a frame is trying, in row-major order, is non-zero.
C7_SearchInvariant ==
    (pc = "solving" /\ NoDuplicates(input)) =>
        /\ NoDuplicates(grid)
        /\ Extends(grid, input)
        /\ \A i \in 1 .. Len(stack) :
             stack[i].pc # "scan" =>
               \A cell \in Cells :
                 RowMajor(cell) < RowMajor(<<stack[i].row, stack[i].column>>)
                   => At(grid, cell) # 0

\* Three frames deep, after an undo in the outermost frame.
C7_Witness ==
    /\ pc = "solving"
    /\ NoDuplicates(input)
    /\ Len(stack) >= 3
    /\ stack[1].numberToTry > 1
    /\ stack[3].pc = "try"

C9_FullGridCharacterised ==
    (out.fn = "validateFullGrid" /\ IsFull(grid)) =>
        /\ out.value <=>
             \A u \in Units : Cardinality({At(grid, cell) : cell \in u}) = 9
        /\ grid = input

\* Rows and columns hold 9 distinct values each, a box does not: rejected.
C9_Witness ==
    /\ out.fn = "validateFullGrid"
    /\ IsFull(grid)
    /\ ~out.value
    /\ \A i \in Idx :
         /\ Cardinality({At(grid, cell) : cell \in RowUnit(i)}) = 9
         /\ Cardinality({At(grid, cell) : cell \in ColumnUnit(i)}) = 9

\* C10, as claimed: the number of active solveGrid frames never exceeds 81.
C10_AtMost81Frames ==
    Len(stack) <= N * N

\* The place of frame i in the order of the search: nothing beyond the top of
\* the stack, else the digit the frame is at and whether it waits for a callee.
Rank(s, i) ==
    IF i > Len(s) THEN 100
    ELSE IF s[i].pc = "scan" THEN 0
    ELSE IF s[i].pc = "try" THEN 3 * s[i].numberToTry
    ELSE 3 * s[i].numberToTry + 1

LexLess(s, t) ==
    \E i \in 1 .. (N * N + 1) :
        /\ Rank(s, i) < Rank(t, i)
        /\ \A j \in 1 .. (i - 1) : Rank(s, j) = Rank(t, j)

FramesBounded ==
    /\ Len(stack) <= N * N + 1
    /\ \A i \in 1 .. Len(stack) :
         /\ stack[i].pc = "scan" => i = Len(stack)
         /\ stack[i].pc # "scan" => stack[i].numberToTry \in 1 .. 10
         /\ \A j \in 1 .. Len(stack) :
              (i # j /\ stack[i].pc # "scan" /\ stack[j].pc # "scan")
                => <<stack[i].row, stack[i].column>> # <<stack[j].row, stack[j].column>>

\* C10, amended: at most 82 frames are active: at most 81 frames that each try
\* the digits 1..9 for one cell of their own, and innermost at most one frame
\* that has not chosen a cell. Every step of the search moves the stack strictly
\* forward in a finite lexicographic order, a frame keeps its cell, and a call
\* that is searching ends (or uses up the step budget of the model).
C10_SearchBoundedAndTerminates ==
    /\ []FramesBounded
    /\ [][pc = "solving" /\ pc' = "solving" =>
            /\ LexLess(stack, stack')
            /\ \A i \in 1 .. Len(stack) :
                 (i <= Len(stack') /\ stack[i].pc # "scan") =>
                    /\ stack'[i].row = stack[i].row
                    /\ stack'[i].column = stack[i].column]_vars
    /\ (pc = "solving") ~> (pc = "done" \/ steps = MaxSteps)

\* 82 frames are active: the search from the all-zero grid has filled all 81
\* cells and entered the frame that finds no empty cell.
C10_Witness ==
    /\ Len(stack) = N * N + 1
    /\ input = AllZero
    /\ EmptyCells(grid) = {}

===========================================================================
